---- MODULE Spec2Model ----
(***************************************************************************)
(* A model of juju/txnstats: the streaming scanners (getCollectionStats,   *)
(* getInProgressStats, getLogStats), the state renderer (state.String) and *)
(* the run of main, which fans the scans out under parallel.NewRun(10),    *)
(* waits for them, merges the result slots and writes the report.          *)
(*                                                                         *)
(* Three specifications share the variables:                               *)
(*   Spec      the run of main, one unit of work per step;                 *)
(*   SpecColl  one collection scan, one document per step;                 *)
(*   SpecTxn   one txns scan, one document per step.                       *)
(***************************************************************************)
EXTENDS Integers, Sequences, FiniteSets, TLC

VARIABLES
    pc,         \* position of main
    listing,    \* collection names as the server lists them
    coll,       \* database: collection name -> queue lengths of its documents
    txnDocs,    \* database: documents of "txns", each [s |-> code, o |-> #ops]
    collNames,  \* main: collNames, after sort.Strings
    idx,        \* main: loop index i (submission loop, then merge loop)
    collStats,  \* main: the slice of result slots
    stats,      \* main: *Stats
    running,    \* parallel.Run: units whose function is executing
    finished,   \* parallel.Run: units whose function has returned
    limiter,    \* parallel.Run: tokens held in the limiter channel
    wg,         \* parallel.Run: the WaitGroup counter
    errs,       \* parallel.Run: errors collected from r.done, in arrival order
    stdout,     \* what was written to os.Stdout
    writes,     \* history: the <<unit, location>> pairs of writes to shared results
    writeCount, \* history: location -> number of writes
    cscan,      \* SpecColl: the scan in progress
    tscan,      \* SpecTxn: the scan in progress
    args,       \* the command line: [username, password]
    net,        \* history: the kinds of network operation performed so far
    stderr,     \* what was written to os.Stderr
    starts,     \* history: unit -> number of goroutines started for it
    render      \* SpecString: the codes being rendered and their renderings

vars == <<pc, listing, coll, txnDocs, collNames, idx, collStats, stats,
          running, finished, limiter, wg, errs, stdout, writes, writeCount,
          cscan, tscan, args, net, stderr, starts, render>>

runVars == <<pc, listing, coll, txnDocs, collNames, idx, collStats, stats,
             running, finished, limiter, wg, errs, stdout, writes, writeCount,
             args, net, stderr, starts>>

\* what the run of main leaves alone
scanVars == <<cscan, tscan, render, args>>

-----------------------------------------------------------------------------
(* Bounds *)

MaxDocs == 3        \* documents in a scanned collection (SpecColl, SpecTxn)
MaxQueueLen == 2    \* length of a document's txn-queue
MaxOpsLen == 1      \* length of a transaction's operation list
MaxCode == 7        \* state codes range over -1..MaxCode
RunMaxDocs == 1     \* documents per collection in the run of main
NumFiller == 8      \* filler collections of the large database
MaxFailures == 2    \* I/O failures injected in one run

(* Program constants *)

MaxParallel == 10
tinvalid == 0
tpreparing == 1
tprepared == 2
taborting == 3
tapplying == 4
taborted == 5
tapplied == 6
numStates == 7

-----------------------------------------------------------------------------
(* Helpers *)

RECURSIVE SeqSum(_)
SeqSum(s) == IF s = <<>> THEN 0 ELSE Head(s) + SeqSum(Tail(s))

Range(s) == {s[k] : k \in 1..Len(s)}

SetMax(S) == CHOOSE m \in S : \A y \in S : y <= m

SetMin(S) == CHOOSE m \in S : \A y \in S : m <= y

SeqsUpTo(S, n) == UNION {[1..k -> S] : k \in 0..n}

\* m[k]++ on a Go map: a missing key reads as zero and is inserted
MapInc(m, k) ==
    [x \in DOMAIN m \cup {k} |->
        IF x = k THEN (IF k \in DOMAIN m THEN m[k] + 1 ELSE 1) ELSE m[x]]

\* m[k] = v on a Go map
MapSet(m, k, v) == [x \in DOMAIN m \cup {k} |-> IF x = k THEN v ELSE m[x]]

\* m[k] read on a Go map of ints
MapGet(m, k) == IF k \in DOMAIN m THEN m[k] ELSE 0

EmptyMap == [x \in {} |-> 0]

-----------------------------------------------------------------------------
(* doc.go: the state renderer *)

\* String that renders every unrecognised code alike
StringWithoutCode(s) ==
    CASE s = tinvalid -> "invalid"
      [] s = tpreparing -> "preparing"
      [] s = tprepared -> "prepared"
      [] s = taborting -> "aborting"
      [] s = tapplying -> "applying"
      [] s = taborted -> "aborted"
      [] s = tapplied -> "applied"
      [] OTHER -> "unknown state"

String(s) ==
    CASE s = tinvalid -> "invalid"
      [] s = tpreparing -> "preparing"
      [] s = tprepared -> "prepared"
      [] s = taborting -> "aborting"
      [] s = tapplying -> "applying"
      [] s = taborted -> "aborted"
      [] s = tapplied -> "applied"
      [] OTHER -> "unknown state: " \o ToString(s)

MarshalText(s) == String(s)

-----------------------------------------------------------------------------
(* txnstats.go: getCollectionStats *)

ZeroCollectionStats ==
    [DocCount |-> 0, MaxQueued |-> 0, MinQueued |-> 0, TotalQueued |-> 0]

\* CollExtrema without the seeding of the first document
CollExtremaUnseeded(st, first, q) ==
    [MaxQueued |-> IF q > st.MaxQueued THEN q ELSE st.MaxQueued,
     MinQueued |-> IF q < st.MinQueued THEN q ELSE st.MinQueued]

\* CollExtrema when first is never reset: every document seeds the extrema
CollExtremaReseeded(st, first, q) == [MaxQueued |-> q, MinQueued |-> q]

\* the extrema after one more document (lines 153-164)
CollExtrema(st, first, q) ==
    IF first
    THEN [MaxQueued |-> q, MinQueued |-> q]
    ELSE [MaxQueued |-> IF q > st.MaxQueued THEN q ELSE st.MaxQueued,
          MinQueued |-> IF q < st.MinQueued THEN q ELSE st.MinQueued]

\* one iteration of the loop body for a document with queue length q
CollStep(st, first, q) ==
    [DocCount |-> st.DocCount + 1,
     TotalQueued |-> st.TotalQueued + q,
     MaxQueued |-> CollExtrema(st, first, q).MaxQueued,
     MinQueued |-> CollExtrema(st, first, q).MinQueued]

RECURSIVE CollFold(_, _, _)
CollFold(st, first, docs) ==
    IF docs = <<>> THEN st
    ELSE CollFold(CollStep(st, first, Head(docs)), FALSE, Tail(docs))

\* The cursor streams docs and then reports failAt >= 0 as "error after
\* failAt documents", failAt = -1 as end of data.
getCollectionStats(docs, failAt) ==
    IF failAt >= 0
    THEN [stats |-> CollFold(ZeroCollectionStats, TRUE, SubSeq(docs, 1, failAt)),
          err |-> TRUE]
    ELSE [stats |-> CollFold(ZeroCollectionStats, TRUE, docs), err |-> FALSE]

-----------------------------------------------------------------------------
(* txnstats.go: getInProgressStats, getLogStats *)

ZeroInProgressStats ==
    [States |-> EmptyMap, MaxOps |-> 0, TotalOps |-> 0, TotalTxns |-> 0]

\* NewInProgressStats with the seven known states entered as zero
NewInProgressStatsAllStates ==
    [ZeroInProgressStats EXCEPT !.States = [c \in tinvalid..tapplied |-> 0]]

\* stats.States = make(map[state]int) (line 128)
NewInProgressStats == [ZeroInProgressStats EXCEPT !.States = EmptyMap]

\* TxnStep that marks the state as seen instead of counting it
TxnStepMarking(st, doc) ==
    [TotalTxns |-> st.TotalTxns + 1,
     TotalOps |-> st.TotalOps + doc.o,
     MaxOps |-> IF doc.o > st.MaxOps THEN doc.o ELSE st.MaxOps,
     States |-> MapSet(st.States, doc.s, 1)]

\* TxnStep that keeps the operation count of the last document as MaxOps
TxnStepLastOps(st, doc) ==
    [TotalTxns |-> st.TotalTxns + 1,
     TotalOps |-> st.TotalOps + doc.o,
     MaxOps |-> doc.o,
     States |-> MapInc(st.States, doc.s)]

\* one iteration of the loop body of lines 129-136
TxnStep(st, doc) ==
    [TotalTxns |-> st.TotalTxns + 1,
     TotalOps |-> st.TotalOps + doc.o,
     MaxOps |-> IF doc.o > st.MaxOps THEN doc.o ELSE st.MaxOps,
     States |-> MapInc(st.States, doc.s)]

RECURSIVE TxnFold(_, _)
TxnFold(st, docs) ==
    IF docs = <<>> THEN st ELSE TxnFold(TxnStep(st, Head(docs)), Tail(docs))

getInProgressStats(docs, failAt) ==
    IF failAt >= 0
    THEN [stats |-> TxnFold(NewInProgressStats, SubSeq(docs, 1, failAt)),
          err |-> TRUE]
    ELSE [stats |-> TxnFold(NewInProgressStats, docs), err |-> FALSE]

ZeroLogStats == [DocCount |-> 0]

getLogStats(n, fail) ==
    IF fail THEN [stats |-> ZeroLogStats, err |-> TRUE]
    ELSE [stats |-> [DocCount |-> n], err |-> FALSE]

-----------------------------------------------------------------------------
(* txnstats.go: wantCollectionStats, sort.Strings *)

HasPrefix(s, prefix) ==
    Len(s) >= Len(prefix) /\ SubSeq(s, 1, Len(prefix)) = prefix

\* wantCollectionStats that leaves out every name that begins with "txns"
wantNoTxnsPrefix(collName) ==
    ~HasPrefix(collName, "txns") /\ ~HasPrefix(collName, "system.")

\* wantCollectionStats without the test for "txns"
wantAllButSystem(collName) == ~HasPrefix(collName, "system.")

wantCollectionStats(collName) ==
    collName # "txns" /\ ~HasPrefix(collName, "system.")

\* the characters of the collection names, in byte order
Alphabet == ".0123456789abcdefghijklmnopqrstuvwxyz"

Byte(ch) ==
    LET k == CHOOSE j \in 1..Len(Alphabet) : SubSeq(Alphabet, j, j) = ch
    IN  IF k = 1 THEN 46 ELSE IF k <= 11 THEN 46 + k ELSE 85 + k

\* a < b in the byte-wise order sort.Strings uses
RECURSIVE StrLessFrom(_, _, _)
StrLessFrom(a, b, k) ==
    IF k > Len(a) THEN k <= Len(b)
    ELSE IF k > Len(b) THEN FALSE
    ELSE LET x == Byte(SubSeq(a, k, k))
             y == Byte(SubSeq(b, k, k))
         IN  IF x < y THEN TRUE
             ELSE IF x > y THEN FALSE
             ELSE StrLessFrom(a, b, k + 1)

StrLess(a, b) == StrLessFrom(a, b, 1)

RECURSIVE Insert(_, _)
Insert(sorted, x) ==
    IF sorted = <<>> THEN <<x>>
    ELSE IF StrLess(x, Head(sorted)) THEN <<x>> \o sorted
    ELSE <<Head(sorted)>> \o Insert(Tail(sorted), x)

RECURSIVE SortStrings(_)
SortStrings(names) ==
    IF names = <<>> THEN <<>>
    ELSE Insert(SortStrings(Tail(names)), Head(names))

-----------------------------------------------------------------------------
(* txnstats.go: the report written by json.MarshalIndent *)

\* fields tagged omitempty are left out when zero
OmitEmpty(rec) == [f \in {g \in DOMAIN rec : rec[g] # 0} |-> rec[f]]

\* map[state]int is written with its keys rendered by MarshalText
MarshalStates(m) ==
    [k \in {MarshalText(c) : c \in DOMAIN m} |->
        m[CHOOSE c \in DOMAIN m : MarshalText(c) = k]]

MarshalInProgress(ip) ==
    [f \in {"States"} \cup {g \in {"MaxOps", "TotalOps", "TotalTxns"} : ip[g] # 0} |->
        IF f = "States" THEN MarshalStates(ip.States) ELSE ip[f]]

MarshalIndent(s) ==
    [Collections |-> [n \in DOMAIN s.Collections |-> OmitEmpty(s.Collections[n])],
     InProgress |-> MarshalInProgress(s.InProgress),
     Log |-> OmitEmpty(s.Log)]

-----------------------------------------------------------------------------
(* The databases the run is checked against *)

SmallNames == {"foo", "system.indexes", "txns", "txns.log"}

FillerName(k) == "c0" \o ToString(k)

FillerNames == {FillerName(k) : k \in 1..NumFiller}

AllNames == SmallNames \cup FillerNames \cup {"txns.stash"}

\* the order in which the server lists the small database
ServerOrder == <<"txns.log", "foo", "txns", "system.indexes">>

Listed(order, S) == SelectSeq(order, LAMBDA n : n \in S)

RunQueues == SeqsUpTo({0, 1, MaxQueueLen}, RunMaxDocs)

ScanCodes == {c \in -1..MaxCode : c <= tpreparing \/ c >= tapplied}

TxnDocKinds == [s : ScanCodes, o : 0..MaxOpsLen]

RunTxnDocs == SeqsUpTo([s : {numStates}, o : {MaxOpsLen}], RunMaxDocs)

\* a small database: any subset of SmallNames; the collections a scan may
\* be wanted for have any content, "system.indexes" has a document with a
\* full queue, and "txns" has the documents txnDocs, each with a queue of
\* one token; a collection that does not exist has no documents
SmallDatabase ==
    /\ txnDocs \in RunTxnDocs
    /\ \E S \in SUBSET SmallNames :
          /\ listing = Listed(ServerOrder, S)
          /\ "txns" \notin S => txnDocs = <<>>
          /\ \E f \in [S \cap {"foo", "txns.log"} -> RunQueues] :
                coll = [n \in AllNames |->
                          IF n \in DOMAIN f THEN f[n]
                          ELSE IF n \in S /\ n = "system.indexes" THEN <<MaxQueueLen>>
                          ELSE IF n = "txns" THEN [k \in 1..Len(txnDocs) |-> 1]
                          ELSE <<>>]

\* a large database: more units of work than the limiter admits at once
LargeDatabase ==
    /\ listing = <<"txns.stash", "txns", "txns.log">>
                    \o [k \in 1..NumFiller |-> FillerName(NumFiller + 1 - k)]
    /\ coll = [n \in AllNames |->
                 IF n \in FillerNames THEN <<Len(n) % 2>>
                 ELSE IF n \in {"txns", "txns.log", "txns.stash"} THEN <<1>>
                 ELSE <<>>]
    /\ txnDocs = <<[s |-> tapplied, o |-> MaxOpsLen]>>

\* the value of the run's variables before main starts
RunStart ==
    /\ pc = "commandLine"
    /\ collNames = <<>>
    /\ idx = 0
    /\ collStats = <<>>
    /\ stats = [Collections |-> EmptyMap, InProgress |-> ZeroInProgressStats,
                Log |-> ZeroLogStats]
    /\ running = {}
    /\ finished = {}
    /\ limiter = 0
    /\ wg = 0
    /\ errs = <<>>
    /\ stdout = <<>>
    /\ writes = {}
    /\ writeCount = EmptyMap
    /\ net = {}
    /\ stderr = <<>>
    /\ starts = EmptyMap

\* the command lines: with or without -username "", with or without -password
CommandLines == [username : {"", "admin"}, password : {"", "secret"}]

\* the command lines of the runs over the databases: the default user with
\* and without a password
RunCommandLines == {a \in CommandLines : a.username = "admin"}

RenderIdle == [pc |-> "idle"]

ScanIdle == [pc |-> "idle", docs |-> <<>>, failAt |-> -1, pos |-> 0]

Init ==
    /\ SmallDatabase \/ LargeDatabase
    /\ RunStart
    /\ args \in RunCommandLines
    /\ cscan = ScanIdle
    /\ tscan = ScanIdle
    /\ render = RenderIdle

-----------------------------------------------------------------------------
(* txnstats.go: main *)

CollUnit(i) == <<"coll", i>>
LogUnit == <<"log", 0>>
TxnsUnit == <<"txns", 0>>

SlotLoc(i) == <<"collStats", i>>
LogLoc == <<"stats.Log", 0>>
InProgressLoc == <<"stats.InProgress", 0>>

InFlight == running

\* a limiter that never blocks
LimiterUnbounded == TRUE

\* r.limiter <- struct{}{} blocks while the channel holds MaxParallel tokens
LimiterHasRoom == limiter < MaxParallel

\* the I/O failures injected in one run: MaxFailures over a small database,
\* one over the large database
FailureBudget ==
    IF Range(listing) \subseteq SmallNames THEN MaxFailures ELSE 1

\* an I/O failure can still be injected in this run
MayFail == Len(errs) < FailureBudget

\* the closure reads the loop variable i instead of its own copy
SharedLoopIndex(i) == IF idx > Len(collNames) THEN Len(collNames) ELSE idx

\* the result is appended in completion order instead of stored at index i
CompletionIndex(i) == Cardinality({u \in finished : u[1] = "coll"}) + 1

\* the index the closure of line 64 writes to: its own copy of i (line 63)
CapturedIndex(i) == i

RecordWrite(u, loc) ==
    /\ writes' = writes \cup {<<u, loc>>}
    /\ writeCount' = MapInc(writeCount, loc)

\* a unit that returns without giving its limiter token back
UnitReturnsKeepingToken(u, failed, e) ==
    /\ running' = running \ {u}
    /\ finished' = finished \cup {u}
    /\ wg' = wg - 1
    /\ limiter' = limiter
    /\ errs' = IF failed THEN Append(errs, e) ELSE errs

\* the deferred r.wg.Done(); <-r.limiter of a unit, and its r.done <- err
UnitReturns(u, failed, e) ==
    /\ running' = running \ {u}
    /\ finished' = finished \cup {u}
    /\ wg' = wg - 1
    /\ limiter' = limiter - 1
    /\ errs' = IF failed THEN Append(errs, e) ELSE errs

\* run.Do: take a limiter token, wg.Add(1), start the goroutine
Do(u) ==
    /\ LimiterHasRoom
    /\ limiter' = limiter + 1
    /\ wg' = wg + 1
    /\ running' = running \cup {u}
    /\ starts' = MapInc(starts, u)
    /\ UNCHANGED <<finished, errs>>

\* the test of line 196 with its operands swapped to "no username"
PasswordMissingWithoutUser(a) == a.password = "" /\ a.username = ""

\* the test of line 196
PasswordMissing(a) == a.password = "" /\ a.username # ""

\* commandLine(): -password is required with a username
CommandLine ==
    /\ pc = "commandLine"
    /\ IF PasswordMissing(args)
       THEN /\ stderr' = Append(stderr, [kind |-> "config"])
            /\ pc' = "exit2"
       ELSE /\ pc' = "dial"
            /\ UNCHANGED stderr
    /\ UNCHANGED <<listing, coll, txnDocs, collNames, idx, collStats, stats,
                   running, finished, limiter, wg, errs, stdout, writes,
                   writeCount, net, starts, scanVars>>

\* dial(args) (lines 47-50)
Dial ==
    /\ pc = "dial"
    /\ net' = net \cup {"dial"}
    /\ \E ok \in BOOLEAN :
          IF ok
          THEN /\ pc' = "collectionNames"
               /\ UNCHANGED stderr
          ELSE /\ pc' = "fatal"
               /\ stderr' = Append(stderr, [kind |-> "dial"])
    /\ UNCHANGED <<listing, coll, txnDocs, collNames, idx, collStats, stats,
                   running, finished, limiter, wg, errs, stdout, writes,
                   writeCount, starts, scanVars>>

\* db.CollectionNames(), sort.Strings, make, parallel.NewRun (lines 52-58)
Discover ==
    /\ pc = "collectionNames"
    /\ net' = net \cup {"collectionNames"}
    /\ \E ok \in BOOLEAN :
          IF ok
          THEN /\ collNames' = SortStrings(listing)
               /\ collStats' = [k \in 1..Len(listing) |-> ZeroCollectionStats]
               /\ idx' = 1
               /\ pc' = "submit"
               /\ UNCHANGED stderr
          ELSE /\ pc' = "fatal"
               /\ stderr' = Append(stderr, [kind |-> "dial"])
               /\ UNCHANGED <<collNames, collStats, idx>>
    /\ UNCHANGED <<listing, coll, txnDocs, stats, running, finished, limiter,
                   wg, errs, stdout, writes, writeCount, starts, scanVars>>

\* one iteration of the loop of lines 59-74 for a collection that is skipped
SkipCollection ==
    /\ pc = "submit"
    /\ idx <= Len(collNames)
    /\ ~wantCollectionStats(collNames[idx])
    /\ idx' = idx + 1
    /\ UNCHANGED <<pc, listing, coll, txnDocs, collNames, collStats, stats,
                   running, finished, limiter, wg, errs, stdout, writes,
                   writeCount, net, stderr, starts, scanVars>>

\* one iteration of the loop of lines 59-74 that submits a collection scan
DoCollection ==
    /\ pc = "submit"
    /\ idx <= Len(collNames)
    /\ wantCollectionStats(collNames[idx])
    /\ Do(CollUnit(idx))
    /\ idx' = idx + 1
    /\ UNCHANGED <<pc, listing, coll, txnDocs, collNames, collStats, stats,
                   stdout, writes, writeCount, net, stderr, scanVars>>

\* lines 75-85: the report is allocated and the log count is submitted
DoLog ==
    /\ pc = "submit"
    /\ idx > Len(collNames)
    /\ Do(LogUnit)
    /\ stats' = [Collections |-> EmptyMap, InProgress |-> ZeroInProgressStats,
                 Log |-> ZeroLogStats]
    /\ pc' = "doTxns"
    /\ UNCHANGED <<listing, coll, txnDocs, collNames, idx, collStats, stdout,
                   writes, writeCount, net, stderr, scanVars>>

\* lines 86-93: the txns scan is submitted
DoTxns ==
    /\ pc = "doTxns"
    /\ Do(TxnsUnit)
    /\ pc' = "wait"
    /\ UNCHANGED <<listing, coll, txnDocs, collNames, idx, collStats, stats,
                   stdout, writes, writeCount, net, stderr, scanVars>>

\* a scan that removes the documents it has read
AfterFindPurging(n) == [coll EXCEPT ![n] = <<>>]

\* the collections after c.Find(nil)...Iter() has run over collection n: a
\* query reads, it does not write (lines 125, 147)
AfterFind(n) == coll

\* the result is stored whether or not the scan failed
StoresAlways(r) == TRUE

\* lines 68-71: the closure returns before the store when the scan failed
StoresResult(r) == ~r.err

\* the function of lines 64-73, run by its goroutine
RunCollection(i) ==
    /\ CollUnit(i) \in running
    /\ net' = net \cup {"find"}
    /\ coll' = AfterFind(collNames[i])
    /\ \E failAt \in {-1} \cup {k \in 0..Len(coll[collNames[i]]) : MayFail} :
          LET r == getCollectionStats(coll[collNames[i]], failAt)
          IN  /\ IF r.err
                 THEN UnitReturns(CollUnit(i), TRUE,
                                  [unit |-> CollUnit(i), name |-> collNames[i]])
                 ELSE UnitReturns(CollUnit(i), FALSE, <<>>)
              /\ IF StoresResult(r)
                 THEN /\ collStats' = [collStats EXCEPT ![CapturedIndex(i)] = r.stats]
                      /\ RecordWrite(CollUnit(i), SlotLoc(CapturedIndex(i)))
                 ELSE UNCHANGED <<collStats, writes, writeCount>>
    /\ UNCHANGED <<pc, listing, txnDocs, collNames, idx, stats, stdout,
                   stderr, starts, scanVars>>

\* the function of lines 78-85, run by its goroutine
RunLog ==
    /\ LogUnit \in running
    /\ net' = net \cup {"count"}
    /\ \E fail \in {f \in BOOLEAN : f => MayFail} :
          LET r == getLogStats(Len(coll["txns.log"]), fail)
          IN  IF r.err
              THEN /\ UnitReturns(LogUnit, TRUE,
                                  [unit |-> LogUnit, name |-> "txns.log"])
                   /\ UNCHANGED <<stats, writes, writeCount>>
              ELSE /\ UnitReturns(LogUnit, FALSE, <<>>)
                   /\ stats' = [stats EXCEPT !.Log = r.stats]
                   /\ RecordWrite(LogUnit, LogLoc)
    /\ UNCHANGED <<pc, listing, coll, txnDocs, collNames, idx, collStats,
                   stdout, stderr, starts, scanVars>>

\* the function of lines 86-93, run by its goroutine
RunTxns ==
    /\ TxnsUnit \in running
    /\ net' = net \cup {"find"}
    /\ \E failAt \in {-1} \cup {k \in 0..Len(txnDocs) : MayFail} :
          LET r == getInProgressStats(txnDocs, failAt)
          IN  IF r.err
              THEN /\ UnitReturns(TxnsUnit, TRUE,
                                  [unit |-> TxnsUnit, name |-> "txns"])
                   /\ UNCHANGED <<stats, writes, writeCount>>
              ELSE /\ UnitReturns(TxnsUnit, FALSE, <<>>)
                   /\ stats' = [stats EXCEPT !.InProgress = r.stats]
                   /\ RecordWrite(TxnsUnit, InProgressLoc)
    /\ UNCHANGED <<pc, listing, coll, txnDocs, collNames, idx, collStats,
                   stdout, stderr, starts, scanVars>>

\* a Wait that does not wait
NoBarrier == TRUE

\* a Wait that returns as soon as a unit has failed
FailFastBarrier == wg = 0 \/ errs # <<>>

\* r.wg.Wait() returns once the counter is zero
AllUnitsReturned == wg = 0

\* the error of run.Wait() is dropped
WaitFailureIgnored == FALSE

\* run.Wait() returns the collected errors when there is one, else nil
WaitFailed == errs # <<>>

\* the message names the error collected last
FatalMessageOfLast(es) ==
    [kind |-> "units", first |-> es[Len(es)], more |-> Len(es) - 1]

\* log.Fatal(err) on the errors of run.Wait(): the text of the error
\* collected first, followed by "(and N more)" when there are others
FatalMessage(es) ==
    [kind |-> "units", first |-> es[1], more |-> Len(es) - 1]

\* run.Wait() and log.Fatal (lines 95-97)
Wait ==
    /\ pc = "wait"
    /\ AllUnitsReturned
    /\ IF WaitFailed
       THEN /\ pc' = "fatal"
            /\ stderr' = Append(stderr, FatalMessage(errs))
       ELSE /\ pc' = "merge"
            /\ UNCHANGED stderr
    /\ idx' = 1
    /\ UNCHANGED <<listing, coll, txnDocs, collNames, collStats, stats,
                   running, finished, limiter, wg, errs, stdout, writes,
                   writeCount, net, starts, scanVars>>

\* retain every collection that has documents
RetainedIfScanned(st) == st.DocCount > 0

\* the test of line 102
Retained(st) == st.TotalQueued > 0

\* one iteration of the loop of lines 98-105
Merge ==
    /\ pc = "merge"
    /\ idx <= Len(collNames)
    /\ stats' = IF wantCollectionStats(collNames[idx]) /\ Retained(collStats[idx])
                THEN [stats EXCEPT !.Collections =
                         MapSet(@, collNames[idx], collStats[idx])]
                ELSE stats
    /\ idx' = idx + 1
    /\ UNCHANGED <<pc, listing, coll, txnDocs, collNames, collStats, running,
                   finished, limiter, wg, errs, stdout, writes, writeCount,
                   net, stderr, starts, scanVars>>

\* lines 106-107
Emit ==
    /\ pc = "merge"
    /\ idx > Len(collNames)
    /\ stdout' = Append(stdout, MarshalIndent(stats))
    /\ pc' = "exit0"
    /\ UNCHANGED <<listing, coll, txnDocs, collNames, idx, collStats, stats,
                   running, finished, limiter, wg, errs, writes, writeCount,
                   net, stderr, starts, scanVars>>

\* the status the process exits with at position p: os.Exit(2) of line 198,
\* os.Exit(1) of log.Fatal, the return of main
ExitStatus(p) ==
    CASE p = "exit2" -> 2
      [] p = "fatal" -> 1
      [] p = "exit0" -> 0

Next ==
    \/ CommandLine
    \/ Dial
    \/ Discover
    \/ SkipCollection
    \/ DoCollection
    \/ DoLog
    \/ DoTxns
    \/ \E i \in 1..Len(collNames) : RunCollection(i)
    \/ RunLog
    \/ RunTxns
    \/ Wait
    \/ Merge
    \/ Emit

Spec == Init /\ [][Next]_vars

\* The Go scheduler runs every goroutine that can run: main and the units
\* take their next step as long as one is possible.
\* Termination is examined over the large database and over the small
\* databases of at most two collections.
FairInit == Init /\ (Len(listing) <= 2 \/ Len(listing) > Cardinality(SmallNames))

FairSpec == FairInit /\ [][Next]_vars /\ WF_vars(Next)

TypeOK ==
    /\ pc \in {"commandLine", "exit2", "dial", "collectionNames", "submit",
               "doTxns", "wait", "merge", "exit0", "fatal"}
    /\ limiter \in 0..MaxParallel
    /\ wg = Cardinality(running)
    /\ running \cap finished = {}

-----------------------------------------------------------------------------
(* SpecColl: getCollectionStats, one document per step *)

\* the run of main does not move while a single scan is examined
RunAtRest ==
    /\ args = [username |-> "admin", password |-> "secret"]
    /\ listing = <<>>
    /\ coll = [n \in AllNames |-> <<>>]
    /\ txnDocs = <<>>
    /\ RunStart

\* iter.Next(&doc) returns true: the cursor has another document
HasNext(sc) ==
    sc.pos < Len(sc.docs) /\ (sc.failAt = -1 \/ sc.pos < sc.failAt)

InitColl ==
    /\ RunAtRest
    /\ tscan = ScanIdle
    /\ render = RenderIdle
    /\ \E d \in SeqsUpTo(0..MaxQueueLen, MaxDocs) :
          \E k \in {-1} \cup (0..Len(d)) :
             cscan = [pc |-> "iter", docs |-> d, failAt |-> k, pos |-> 0,
                      first |-> TRUE, stats |-> ZeroCollectionStats]

\* the loop body of lines 150-165
CollNext ==
    /\ cscan.pc = "iter"
    /\ HasNext(cscan)
    /\ cscan' = [cscan EXCEPT
                    !.pos = @ + 1,
                    !.first = FALSE,
                    !.stats = CollStep(@, cscan.first, cscan.docs[cscan.pos + 1])]
    /\ UNCHANGED <<runVars, tscan, render>>

\* iter.Next returns false, iter.Err() is nil (line 169)
CollReturn ==
    /\ cscan.pc = "iter"
    /\ ~HasNext(cscan)
    /\ cscan.failAt = -1
    /\ cscan' = [cscan EXCEPT !.pc = "ok"]
    /\ UNCHANGED <<runVars, tscan, render>>

\* iter.Next returns false, iter.Err() is an error (lines 166-168)
CollFail ==
    /\ cscan.pc = "iter"
    /\ ~HasNext(cscan)
    /\ cscan.failAt # -1
    /\ cscan' = [cscan EXCEPT !.pc = "err"]
    /\ UNCHANGED <<runVars, tscan, render>>

NextColl == CollNext \/ CollReturn \/ CollFail

SpecColl == InitColl /\ [][NextColl]_vars

-----------------------------------------------------------------------------
(* SpecTxn: getInProgressStats, one document per step *)

InitTxn ==
    /\ RunAtRest
    /\ cscan = ScanIdle
    /\ render = RenderIdle
    /\ \E d \in SeqsUpTo(TxnDocKinds, MaxDocs) :
          \E k \in {-1} \cup (0..Len(d)) :
             tscan = [pc |-> "iter", docs |-> d, failAt |-> k, pos |-> 0,
                      stats |-> NewInProgressStats]

\* the loop body of lines 129-136
TxnNext ==
    /\ tscan.pc = "iter"
    /\ HasNext(tscan)
    /\ tscan' = [tscan EXCEPT
                    !.pos = @ + 1,
                    !.stats = TxnStep(@, tscan.docs[tscan.pos + 1])]
    /\ UNCHANGED <<runVars, cscan, render>>

\* iter.Next returns false, iter.Err() is nil (line 140)
TxnReturn ==
    /\ tscan.pc = "iter"
    /\ ~HasNext(tscan)
    /\ tscan.failAt = -1
    /\ tscan' = [tscan EXCEPT !.pc = "ok"]
    /\ UNCHANGED <<runVars, cscan, render>>

\* iter.Next returns false, iter.Err() is an error (lines 137-139)
TxnFail ==
    /\ tscan.pc = "iter"
    /\ ~HasNext(tscan)
    /\ tscan.failAt # -1
    /\ tscan' = [tscan EXCEPT !.pc = "err"]
    /\ UNCHANGED <<runVars, cscan, render>>

NextTxn == TxnNext \/ TxnReturn \/ TxnFail

SpecTxn == InitTxn /\ [][NextTxn]_vars

-----------------------------------------------------------------------------
(* The scanners *)

RECURSIVE MapSum(_)
MapSum(m) ==
    IF DOMAIN m = {} THEN 0
    ELSE LET k == CHOOSE x \in DOMAIN m : TRUE
         IN  m[k] + MapSum([x \in DOMAIN m \ {k} |-> m[x]])

\* the number of documents of docs that carry state code c
Carrying(docs, c) == Cardinality({j \in 1..Len(docs) : docs[j].s = c})

\* C1: a collection scan that ends without error returns DocCount = n,
\* TotalQueued = q1+...+qn, MaxQueued = max(qi), MinQueued = min(qi), and
\* all four are 0 when n = 0.  (SpecColl)
C1_CollectionStatsExact ==
    cscan.pc = "ok" =>
        /\ cscan.stats.DocCount = Len(cscan.docs)
        /\ cscan.stats.TotalQueued = SeqSum(cscan.docs)
        /\ IF cscan.docs = <<>>
           THEN cscan.stats = ZeroCollectionStats
           ELSE /\ cscan.stats.MaxQueued = SetMax(Range(cscan.docs))
                /\ cscan.stats.MinQueued = SetMin(Range(cscan.docs))

C1_Witness ==
    /\ cscan.pc = "ok"
    /\ cscan.stats.DocCount >= 3
    /\ 0 < cscan.stats.MinQueued
    /\ cscan.stats.MinQueued < cscan.stats.MaxQueued
    /\ cscan.docs[1] > cscan.stats.MinQueued

\* C2: a txns scan that ends without error returns TotalTxns = n, the
\* values of States sum to n, and for every document the entry of States
\* for its code (in the map, and in the written report under the code's
\* rendering) is the number of documents that carry that code.  (SpecTxn)
C2_StateHistogramExact ==
    tscan.pc = "ok" =>
        /\ tscan.stats.TotalTxns = Len(tscan.docs)
        /\ MapSum(tscan.stats.States) = Len(tscan.docs)
        /\ \A k \in 1..Len(tscan.docs) :
              /\ tscan.docs[k].s \in DOMAIN tscan.stats.States
              /\ tscan.stats.States[tscan.docs[k].s]
                    = Carrying(tscan.docs, tscan.docs[k].s)
              /\ String(tscan.docs[k].s) \in DOMAIN MarshalStates(tscan.stats.States)
              /\ MarshalStates(tscan.stats.States)[String(tscan.docs[k].s)]
                    = Carrying(tscan.docs, tscan.docs[k].s)

C2_Witness ==
    /\ tscan.pc = "ok"
    /\ Len(tscan.docs) = 3
    /\ MapGet(tscan.stats.States, -1) = 2
    /\ MapGet(tscan.stats.States, numStates) = 1

\* C9 (as claimed): after a successful txns scan all seven lifecycle
\* states are keys of States, with count zero for every state that no
\* scanned document carries.  (SpecTxn)
C9_AllSevenStatesPresent ==
    tscan.pc = "ok" =>
        \A c \in tinvalid..tapplied :
            /\ c \in DOMAIN tscan.stats.States
            /\ Carrying(tscan.docs, c) = 0 => tscan.stats.States[c] = 0

\* C9 (amended): after a successful txns scan the keys of States are
\* exactly the state codes that some scanned document carries, each with a
\* positive count; States has no key when txns is empty, and a state that
\* no document carries is absent and reads as zero.  (SpecTxn)
C9_StatesKeysAreCarriedCodes ==
    tscan.pc = "ok" =>
        /\ DOMAIN tscan.stats.States = {tscan.docs[k].s : k \in 1..Len(tscan.docs)}
        /\ \A c \in DOMAIN tscan.stats.States : tscan.stats.States[c] > 0
        /\ \A c \in tinvalid..tapplied :
              Carrying(tscan.docs, c) = 0 => MapGet(tscan.stats.States, c) = 0
        /\ tscan.docs = <<>> => tscan.stats.States = EmptyMap

C9_Witness ==
    /\ tscan.pc = "ok"
    /\ Len(tscan.docs) >= 2
    /\ tpreparing \in DOMAIN tscan.stats.States
    /\ tapplied \notin DOMAIN tscan.stats.States

-----------------------------------------------------------------------------
(* The run of main *)

\* a name the report must not carry: "txns" or one that begins with "system."
Reserved(n) == n = "txns" \/ (Len(n) >= 7 /\ SubSeq(n, 1, 7) = "system.")

\* the units of work a complete submission consists of
AllUnits ==
    {CollUnit(i) : i \in {k \in 1..Len(collNames) : ~Reserved(collNames[k])}}
        \cup {LogUnit, TxnsUnit}

\* the result location a unit is meant to write
TargetOf(u) ==
    IF u[1] = "coll" THEN SlotLoc(u[2])
    ELSE IF u = LogUnit THEN LogLoc ELSE InProgressLoc

\* what an undisturbed scan of collection n returns
ScanOf(n) == getCollectionStats(coll[n], -1).stats

\* the report as a function of the database alone
ExpectedStats ==
    [Collections |->
        [n \in {m \in Range(listing) : ~Reserved(m) /\ ScanOf(m).TotalQueued > 0}
            |-> ScanOf(n)],
     InProgress |-> getInProgressStats(txnDocs, -1).stats,
     Log |-> getLogStats(Len(coll["txns.log"]), FALSE).stats]

Submit == DoCollection \/ DoLog \/ DoTxns

\* C3: once a unit of work has returned an error, no report is ever
\* written and the merge is never entered: the run can only end in the
\* error exit.
C3_NoReportAfterUnitError ==
    errs # <<>> => stdout = <<>> /\ pc \notin {"merge", "exit0"}

C3_Witness ==
    /\ pc = "fatal"
    /\ errs # <<>>
    /\ writes # {}
    /\ \E k \in 1..Len(errs) : errs[k].name = "foo"

\* C4: at most MaxParallel = 10 units are in flight, and while 10 are in
\* flight no further unit can be submitted.
C4_AtMostTenInFlight ==
    /\ Cardinality(InFlight) <= MaxParallel
    /\ Cardinality(InFlight) = MaxParallel => ~ENABLED Submit

C4_Witness ==
    /\ Cardinality(InFlight) = MaxParallel
    /\ pc \in {"submit", "doTxns"}
    /\ finished = {}

\* C5: every write to a shared result goes to the writing unit's own
\* location (collStats[i] for the scan of index i, stats.Log for the log
\* unit, stats.InProgress for the txns unit), no location is written by two
\* units, and no location is written twice.
C5_DisjointSingleWrites ==
    /\ \A w \in writes : w[2] = TargetOf(w[1])
    /\ \A w1, w2 \in writes : w1[2] = w2[2] => w1[1] = w2[1]
    /\ \A loc \in DOMAIN writeCount : writeCount[loc] = 1

C5_Witness ==
    /\ Cardinality({w \in writes : w[1][1] = "coll"}) >= 2
    /\ <<LogUnit, LogLoc>> \in writes
    /\ <<TxnsUnit, InProgressLoc>> \in writes
    /\ running # {}

\* C6: when the run ends with a report, the report is the one determined
\* by the database content, whatever the order in which the units were
\* scheduled and finished.
C6_ReportDependsOnDatabaseOnly ==
    pc = "exit0" => stdout = <<MarshalIndent(ExpectedStats)>>

C6_Witness ==
    /\ pc = "exit0"
    /\ \E a, b \in DOMAIN stats.Collections :
          stats.Collections[a] # stats.Collections[b]
    /\ stats.InProgress.TotalTxns > 0

\* C7: in the final report an eligible collection is a key of Collections
\* exactly when its scan returned TotalQueued > 0, its value is then the
\* statistics the scan returned, and Collections has no other key.
C7_ZeroSuppression ==
    pc = "exit0" =>
        /\ \A i \in 1..Len(collNames) :
              ~Reserved(collNames[i]) =>
                 /\ collNames[i] \in DOMAIN stats.Collections
                       <=> ScanOf(collNames[i]).TotalQueued > 0
                 /\ collNames[i] \in DOMAIN stats.Collections
                       => /\ stats.Collections[collNames[i]] = ScanOf(collNames[i])
                          /\ stdout[1].Collections[collNames[i]]
                                = OmitEmpty(ScanOf(collNames[i]))
        /\ DOMAIN stats.Collections \subseteq Range(collNames)
        /\ DOMAIN stdout[1].Collections = DOMAIN stats.Collections

C7_Witness ==
    /\ pc = "exit0"
    /\ "foo" \in Range(collNames)
    /\ coll["foo"] = <<0>>
    /\ "foo" \notin DOMAIN stats.Collections
    /\ "txns.log" \in DOMAIN stats.Collections

\* C8: neither "txns" nor a name that begins with "system." is ever a key
\* of the Collections map (in memory or as written), and no collection scan
\* is ever started for such a name.
C8_ReservedNamesExcluded ==
    /\ \A n \in DOMAIN stats.Collections : ~Reserved(n)
    /\ \A k \in 1..Len(stdout) : \A n \in DOMAIN stdout[k].Collections : ~Reserved(n)
    /\ \A u \in running \cup finished : u[1] = "coll" => ~Reserved(collNames[u[2]])

C8_Witness ==
    /\ pc = "exit0"
    /\ {"txns", "system.indexes"} \subseteq Range(collNames)
    /\ SeqSum(coll["txns"]) > 0
    /\ SeqSum(coll["system.indexes"]) > 0
    /\ DOMAIN stats.Collections # {}

\* C10: while the Collections map is being built, and once the report has
\* been written, every unit of work has been submitted and has returned.
C10_MergeAfterAllUnits ==
    (pc \in {"merge", "exit0"} \/ stdout # <<>>) =>
        /\ running = {}
        /\ wg = 0
        /\ finished = AllUnits

C10_Witness ==
    /\ pc = "merge"
    /\ idx > 1
    /\ Cardinality(finished) >= 4
    /\ DOMAIN stats.Collections # {}

-----------------------------------------------------------------------------
(* SpecString: state.String on two codes *)

Codes == -2..MaxCode

InitString ==
    /\ RunAtRest
    /\ cscan = ScanIdle
    /\ tscan = ScanIdle
    /\ \E a, b \in Codes : render = [pc |-> "codes", a |-> a, b |-> b]

\* s.String() for both codes
Render ==
    /\ render.pc = "codes"
    /\ render' = [pc |-> "done", a |-> render.a, b |-> render.b,
                  ta |-> String(render.a), tb |-> String(render.b)]
    /\ UNCHANGED <<runVars, cscan, tscan>>

NextString == Render

SpecString == InitString /\ [][NextString]_vars

-----------------------------------------------------------------------------
(* The command line and the renderer *)

\* the command line names a user and gives no password
UserWithoutPassword == args.username # "" /\ args.password = ""

\* C11: when the username is not empty and the password is empty, the run
\* goes from the command line to the exit with status 2 with the
\* configuration error on stderr; nothing is dialled, listed, scanned or
\* counted, and nothing is written to stdout.
C11_ConfigErrorBeforeNetwork ==
    UserWithoutPassword =>
        /\ net = {}
        /\ stdout = <<>>
        /\ running = {} /\ finished = {}
        /\ pc \in {"commandLine", "exit2"}
        /\ pc = "exit2" => /\ ExitStatus(pc) # 0
                           /\ stderr = <<[kind |-> "config"]>>

C11_Witness ==
    /\ pc = "exit2"
    /\ args.username = "admin"
    /\ args.password = ""
    /\ Len(listing) >= 2

\* the names of the seven known codes, code 0 first
KnownNames ==
    <<"invalid", "preparing", "prepared", "aborting", "applying", "aborted", "applied">>

\* C12: the codes 0..6 render as invalid, preparing, prepared, aborting,
\* applying, aborted, applied; any other code c renders as "unknown state: c",
\* which is none of the seven names; and two codes render alike only when
\* they are the same code.  (SpecString)
C12_StringTotalAndInjective ==
    render.pc = "done" =>
        /\ render.a \in 0..6 => render.ta = KnownNames[render.a + 1]
        /\ render.a \notin 0..6 =>
              /\ render.ta = "unknown state: " \o ToString(render.a)
              /\ render.ta \notin Range(KnownNames)
        /\ render.ta = render.tb <=> render.a = render.b

C12_Witness ==
    /\ render.pc = "done"
    /\ render.a = -1
    /\ render.b = numStates
    /\ render.ta # render.tb

-----------------------------------------------------------------------------
(* Errors and effects of the run *)

\* unit u has returned an error
Failed(u) == \E k \in 1..Len(errs) : errs[k].unit = u

\* C13: when units have failed, the run writes one message to stderr; it
\* carries the error collected first (that of the unit that failed first)
\* and, of the errors of the units that failed later, nothing but their
\* number.
C13_FirstErrorReported ==
    (pc = "fatal" /\ errs # <<>>) =>
        /\ Len(stderr) = 1
        /\ stderr[1].kind = "units"
        /\ stderr[1].first = errs[1]
        /\ stderr[1].more = Len(errs) - 1
        /\ \A k \in 2..Len(errs) : stderr[1].first # errs[k]

C13_Witness ==
    /\ pc = "fatal"
    /\ Len(errs) >= 2
    /\ errs[1].unit = TxnsUnit
    /\ errs[2].unit[1] = "coll"

\* C14: no step of the run changes the database: the collections listed,
\* the documents of every collection and the documents of txns stay as they
\* were at the start.
C14_DatabaseUnchanged ==
    [][listing' = listing /\ coll' = coll /\ txnDocs' = txnDocs]_vars

C14_Witness ==
    /\ pc = "exit0"
    /\ {"find", "count"} \subseteq net
    /\ \E n \in Range(collNames) : ~Reserved(n) /\ coll[n] # <<>>
    /\ txnDocs # <<>>

\* C15: when the scan of the collection at index i has returned an error,
\* whatever it had accumulated before the failure, collStats[i] still has
\* its initial zero value and the unit has written no shared result.
C15_FailedScanLeavesSlotZero ==
    \A i \in 1..Len(collNames) :
        Failed(CollUnit(i)) =>
            /\ collStats[i] = ZeroCollectionStats
            /\ \A w \in writes : w[1] # CollUnit(i) /\ w[2] # SlotLoc(i)

C15_Witness ==
    /\ \E i \in 1..Len(collNames) :
          /\ Failed(CollUnit(i))
          /\ SeqSum(coll[collNames[i]]) > 0
          /\ getCollectionStats(coll[collNames[i]], 1).stats # ZeroCollectionStats
    /\ \E w \in writes : w[1][1] = "coll"

-----------------------------------------------------------------------------
(* The scanners, step by step *)

\* the operation-list lengths of the documents processed so far
OpsSeen == [k \in 1..tscan.pos |-> tscan.docs[k].o]

\* C16: after every processed document of a txns scan TotalOps is the sum
\* and MaxOps the maximum of the operation-list lengths processed so far (0
\* before the first), hence TotalOps >= MaxOps; a scan that ends without
\* error has processed every document.  (SpecTxn)
C16_OpsTotalsExact ==
    /\ tscan.stats.TotalOps = SeqSum(OpsSeen)
    /\ tscan.stats.MaxOps = IF tscan.pos = 0 THEN 0 ELSE SetMax(Range(OpsSeen))
    /\ tscan.stats.TotalOps >= tscan.stats.MaxOps
    /\ tscan.pc = "ok" => tscan.pos = Len(tscan.docs)

C16_Witness ==
    /\ tscan.pc = "ok"
    /\ Len(tscan.docs) >= 2
    /\ tscan.stats.MaxOps >= 1
    /\ tscan.stats.TotalOps > tscan.stats.MaxOps
    /\ tscan.docs[Len(tscan.docs)].o < tscan.stats.MaxOps

\* C17: at every step of a collection scan MinQueued <= MaxQueued <=
\* TotalQueued once a document has been processed; DocCount, TotalQueued
\* and MaxQueued never decrease, and after the first document MinQueued
\* never increases.  (SpecColl)
C17_ScanStepInvariants ==
    /\ [](cscan.stats.DocCount > 0 =>
             /\ cscan.stats.MinQueued <= cscan.stats.MaxQueued
             /\ cscan.stats.MaxQueued <= cscan.stats.TotalQueued)
    /\ [][/\ cscan'.stats.DocCount >= cscan.stats.DocCount
          /\ cscan'.stats.TotalQueued >= cscan.stats.TotalQueued
          /\ cscan'.stats.MaxQueued >= cscan.stats.MaxQueued
          /\ cscan.stats.DocCount > 0 =>
                cscan'.stats.MinQueued <= cscan.stats.MinQueued]_vars

C17_Witness ==
    /\ cscan.pc = "iter"
    /\ cscan.pos = 2
    /\ cscan.pos < Len(cscan.docs)
    /\ cscan.stats.MinQueued < cscan.stats.MaxQueued
    /\ cscan.stats.MaxQueued < cscan.stats.TotalQueued
    /\ cscan.docs[2] < cscan.docs[1]

-----------------------------------------------------------------------------
(* Units of work *)

\* the step of the goroutine of unit u
RunUnit(u) ==
    IF u[1] = "coll" THEN RunCollection(u[2])
    ELSE IF u = LogUnit THEN RunLog ELSE RunTxns

\* C18: a failed unit cancels nothing: after a failure the submission loop
\* still goes on whenever the limiter has room, every unit in flight can
\* still run, and the error exit is taken only when every unit of the run
\* has been submitted and has returned.
C18_SiblingsRunToCompletion ==
    /\ (pc = "fatal" /\ errs # <<>>) => running = {} /\ finished = AllUnits
    /\ (errs # <<>> /\ pc \in {"submit", "doTxns"} /\ limiter < MaxParallel)
          => ENABLED (Submit \/ SkipCollection)
    /\ errs # <<>> => \A u \in running : ENABLED RunUnit(u)

C18_Witness ==
    /\ pc = "fatal"
    /\ Len(errs) >= 1
    /\ errs[1].unit[1] = "coll"
    /\ Cardinality(finished) > MaxParallel
    /\ <<TxnsUnit, InProgressLoc>> \in writes

\* C19: one goroutine is started for each discovered name that is neither
\* "txns" nor begins with "system.", one for the log count and one for the
\* txns scan, and no other; "txns.log" and "txns.stash" are scanned like any
\* other collection and are in the report exactly when their TotalQueued > 0.
C19_OneUnitPerEligibleCollection ==
    /\ \A u \in DOMAIN starts : starts[u] = 1 /\ u \in AllUnits
    /\ DOMAIN starts = running \cup finished
    /\ (pc \in {"wait", "merge", "exit0"} \/ (pc = "fatal" /\ errs # <<>>))
          => DOMAIN starts = AllUnits
    /\ \A i \in 1..Len(collNames) :
          collNames[i] \in {"txns.log", "txns.stash"} =>
             /\ CollUnit(i) \in AllUnits
             /\ pc = "exit0" =>
                   /\ CollUnit(i) \in finished
                   /\ collNames[i] \in DOMAIN stats.Collections
                         <=> SeqSum(coll[collNames[i]]) > 0

C19_Witness ==
    /\ pc = "exit0"
    /\ {"txns.log", "txns.stash"} \subseteq DOMAIN stats.Collections
    /\ "txns" \in Range(collNames)
    /\ stats.Log.DocCount = 1
    /\ starts[LogUnit] = 1

-----------------------------------------------------------------------------
(* Termination *)

Final == {"exit0", "fatal", "exit2"}

\* C20: under fair scheduling every run ends, whatever the number of
\* collections, with the report written once and nothing on stderr, or with
\* an error exit, one message on stderr and no report; before the end
\* nothing is written to stdout.  (FairSpec)
C20_RunTerminates ==
    /\ <>(pc \in Final)
    /\ [](pc = "exit0" => Len(stdout) = 1 /\ stderr = <<>>)
    /\ [](pc \in {"fatal", "exit2"} => stdout = <<>> /\ Len(stderr) = 1)
    /\ [](pc \notin Final => stdout = <<>> /\ stderr = <<>>)

C20_Witness ==
    /\ pc = "exit0"
    /\ Cardinality(finished) > MaxParallel
    /\ limiter = 0
    /\ Len(stdout) = 1

====
